---- MODULE Spec2Model ----
(***************************************************************************)
(* Inquiry reconciliation and assignment workflow of the travel-agency     *)
(* back office (controllers/inquiryController.js).                         *)
(*                                                                         *)
(* The Inquiry Store and the Booking store are the state; every HTTP       *)
(* handler is one action that runs to completion.  Strings that the code   *)
(* inspects character by character (identifiers) are sequences of          *)
(* one-character strings, so that trim() and the 24-hex test are computed. *)
(* `last` is the request that was handled last together with the response  *)
(* that was sent for it.                                                   *)
(*                                                                         *)
(* The one-off migration script (scripts' migrateDatabase) is a program of *)
(* its own, specified by MigrationSpec: oldDb and newDb are the two        *)
(* clusters, cursor is the position of its loop over COLLECTIONS.          *)
(***************************************************************************)
EXTENDS Integers, Sequences, FiniteSets, TLC

VARIABLES inquiries, bookings, nextId, everAssigned, last, ops,
          oldDb, newDb, cursor, run, snapshot, failed,
          proc, lastSave

appVars == <<inquiries, bookings, nextId, everAssigned, last, ops>>
migrationVars == <<oldDb, newDb, cursor, run, snapshot, failed>>
raceVars == <<proc, lastSave>>
vars == <<appVars, migrationVars, raceVars>>

(***************************************************************************)
(* Bounds                                                                  *)
(***************************************************************************)
\* Number of ObjectIds the Inquiry Store issues (inquiries ever created).
MaxInquiries == 2
\* Number of requests handled in one behaviour.
MaxOps == 3
\* Number of records in one answer of the External Inquiry Source.
MaxExternal == 2
\* Number of collections the migration loop is followed through.
MaxCollections == 3
\* Number of documents in a collection of the old cluster.
MaxDocs == 2
\* Number of times the migration script is run.
MaxRuns == 2
\* Length of the identifier strings the classifiers are applied to.
MaxIdLen == 25
\* Number of Bookings the booking endpoints create.
MaxBookings == 2

(***************************************************************************)
(* Strings                                                                 *)
(***************************************************************************)
\* Length of the textual form of a local database identifier.
ObjectIdLen == 24

HexChars == {"0", "1", "2", "3", "4", "5", "6", "7", "8", "9",
             "a", "b", "c", "d", "e", "f", "A", "B", "C", "D", "E", "F"}

WhiteSpace == {" "}

Empty == << >>

\* JavaScript truthiness of a string.
Truthy(s) == s # Empty

\* a || b on strings.
OrElse(a, b) == IF Truthy(a) THEN a ELSE b

RECURSIVE TrimLeft(_)
TrimLeft(s) ==
    IF s # Empty /\ Head(s) \in WhiteSpace THEN TrimLeft(Tail(s)) ELSE s

RECURSIVE TrimRight(_)
TrimRight(s) ==
    IF s # Empty /\ s[Len(s)] \in WhiteSpace
    THEN TrimRight(SubSeq(s, 1, Len(s) - 1))
    ELSE s

\* String.prototype.trim
Trim(s) == TrimRight(TrimLeft(s))

\* /^[0-9a-fA-F]{24}$/.test(s)
HexRegexTest(s) == Len(s) = ObjectIdLen /\ \A i \in 1..Len(s) : s[i] \in HexChars

\* mongoose.Types.ObjectId.isValid(s) for a string s: a 12-character string
\* or a 24-character hexadecimal string.
ObjectIdIsValid(s) == Len(s) = 12 \/ HexRegexTest(s)

\* Variant: the lookup goes by ObjectId validity alone.
isMongoObjectId_validOnly(id) == ObjectIdIsValid(id)

\* mongoose.Types.ObjectId.isValid(id) && id.length === 24
isMongoObjectId(id) == ObjectIdIsValid(id) /\ Len(id) = ObjectIdLen

\* The textual form of the k-th ObjectId the store issues.
IdDigits == <<"a", "b", "c", "d", "e", "f">>
OID(k) == [i \in 1..ObjectIdLen |-> IdDigits[k]]

\* Identifiers of the External Inquiry Source.
ext1 == <<"x", "1">>
ext2 == <<"x", "2">>
blankId == <<" ">>

\* Identifiers a request can carry in its path (req.params.id).
Ids == {OID(k) : k \in 1..MaxInquiries} \cup {ext1}

(***************************************************************************)
(* Identity stores (User and Agent collections) and callers                *)
(***************************************************************************)
Null == "null"
Users == {"u1"}
Agents == {"a1"}
\* A well-formed identifier that is in neither identity store.
UnknownAgent == "n1"
\* assignedAgent as a request body can carry it; "" stands for a missing,
\* null or empty value.
AgentInputs == {"", "u1", "a1", UnknownAgent}

Callers == {[role |-> "admin", _id |-> "adm"],
            [role |-> "agent", _id |-> "u1"],
            [role |-> "agent", _id |-> "a1"]}

(***************************************************************************)
(* Inquiry Store                                                           *)
(***************************************************************************)
\* The Inquiry schema: a new document is "pending" and unassigned.
NewInquiry(oid, externalId) ==
    [_id |-> oid, externalId |-> externalId, status |-> "pending",
     assignedAgent |-> Null, responses |-> 0]

\* Variant: no unique index on externalId.
InsertAccepted_noIndex(store, doc) == TRUE

\* The unique (sparse) index on externalId: an insert is rejected when another
\* document already carries the same externalId.
InsertAccepted(store, doc) ==
    ~Truthy(doc.externalId)
    \/ \A i \in 1..Len(store) : store[i].externalId # doc.externalId

\* Inquiry.findById(id): index of the document, 0 when there is none.
findById(store, id) ==
    IF \E i \in 1..Len(store) : store[i]._id = id
    THEN CHOOSE i \in 1..Len(store) : store[i]._id = id
    ELSE 0

\* Inquiry.findOne({ externalId: id }): the first match in natural order.
findOneByExternalId(store, id) ==
    IF \E i \in 1..Len(store) : store[i].externalId = id
    THEN CHOOSE i \in 1..Len(store) :
            /\ store[i].externalId = id
            /\ \A j \in 1..(i - 1) : store[j].externalId # id
    ELSE 0

\* Variant: the externalId lookup runs before the lookup by local identifier.
findInquiry_externalFirst(store, id) ==
    LET byExt == findOneByExternalId(store, id)
    IN  IF byExt # 0 THEN byExt
        ELSE IF isMongoObjectId(id) THEN findById(store, id) ELSE 0

\* The lookup every handler with an :id parameter starts with.
findInquiry(store, id) ==
    LET byId == IF isMongoObjectId(id) THEN findById(store, id) ELSE 0
    IN  IF byId # 0 THEN byId ELSE findOneByExternalId(store, id)

\* Variant: the role of the caller is not looked at.
adminOnly_anyRole(role) == TRUE

\* req.user.role !== "admin", negated: the caller may assign.
adminOnly(role) == role = "admin"

\* !assignedAgent || assignedAgent === '' || assignedAgent === null, negated
agentGiven(a) == a # ""

\* Variant: the agent is not looked up.
agentExists_always(a) == TRUE

\* Variant: only the User collection is consulted.
agentExists_usersOnly(a) == a \in Users

\* User.findById(a) || Agent.findById(a)
agentExists(a) == a \in Users \/ a \in Agents

NoReq == [none |-> TRUE]
NoOut == [none |-> TRUE]

\* A handled request and the response sent for it.
Reply(op, req, code, msg, out) ==
    [op |-> op, req |-> req, code |-> code, msg |-> msg, out |-> out]

Idle == Reply("none", NoReq, 0, "", NoOut)

\* The collections the migration script copies, in its order.
COLLECTIONS == <<"users", "agents", "bookings", "inquiries", "companies">>

Migrated == SubSeq(COLLECTIONS, 1, MaxCollections)

Names == {Migrated[i] : i \in 1..Len(Migrated)}

\* The server starts with empty stores.
AppInit ==
    /\ inquiries = << >>
    /\ bookings = << >>
    /\ nextId = 1
    /\ everAssigned = {}
    /\ last = Idle
    /\ ops = 0

\* The migration script is not run.
MigrationIdle ==
    /\ oldDb = [c \in Names |-> [exists |-> FALSE, docs |-> {}]]
    /\ newDb = [c \in Names |-> {}]
    /\ cursor = Len(Migrated) + 1
    /\ run = MaxRuns
    /\ snapshot = newDb
    /\ failed = {}

\* The two admins whose requests can be in flight together.
Admins == {1, 2}

\* No request is in flight.
RaceIdle ==
    /\ proc = [p \in Admins |-> [pc |-> "done"]]
    /\ lastSave = 0

Init == AppInit /\ MigrationIdle /\ RaceIdle

\* A handler starts when the previous exchange is over.
Ready == last = Idle /\ ops < MaxOps

\* BOOLEAN when the write is attempted, otherwise a single value.
Outcome(attempted) == IF attempted THEN BOOLEAN ELSE {TRUE}

(***************************************************************************)
(* POST /inquiries                                                         *)
(***************************************************************************)
\* req.body.externalId and req.body.id
CreateRequests ==
    [externalId : {Empty, blankId, OID(1)}, id : {Empty, ext1}]

\* process.env.INQUIRY_WEBHOOK_URL and INQUIRY_WEBHOOK_SECRET: set or not.
WebhookEnvs == [url : BOOLEAN, secret : BOOLEAN]

\* Variant: the webhook is skipped only when the URL is unset.
forwardInquiryWebhook_urlOnly(env, delivered) ==
    IF ~env.url
    THEN [skipped |-> TRUE, success |-> FALSE, sent |-> FALSE]
    ELSE [skipped |-> FALSE, success |-> delivered, sent |-> TRUE]

\* forwardInquiryWebhook: its result (skipped, or the success of the POST),
\* and whether an outbound request was sent; delivered is what the POST to
\* the webhook URL comes to.
forwardInquiryWebhook(env, delivered) ==
    IF ~env.url \/ ~env.secret
    THEN [skipped |-> TRUE, success |-> FALSE, sent |-> FALSE]
    ELSE [skipped |-> FALSE, success |-> delivered, sent |-> TRUE]

createInquiry ==
    /\ Ready
    /\ nextId <= MaxInquiries
    /\ \E req \in CreateRequests, saveOk \in BOOLEAN, env \in WebhookEnvs :
         LET doc == NewInquiry(OID(nextId), OrElse(req.externalId, req.id))
             saved == saveOk /\ InsertAccepted(inquiries, doc)
         IN
         \E delivered \in Outcome(saved /\ env.url /\ env.secret) :
             /\ inquiries' = IF saved THEN Append(inquiries, doc) ELSE inquiries
             /\ nextId' = IF saved THEN nextId + 1 ELSE nextId
             /\ last' = IF saved
                        THEN Reply("createInquiry", req, 201, "",
                                   [inquiry |-> doc, env |-> env,
                                    webhook |-> forwardInquiryWebhook(env, delivered)])
                        ELSE Reply("createInquiry", req, 500, "error", NoOut)
    /\ ops' = ops + 1
    /\ UNCHANGED <<bookings, everAssigned>>
    /\ UNCHANGED <<migrationVars, raceVars>>

(***************************************************************************)
(* PUT /inquiries/:id/assign                                               *)
(***************************************************************************)
NoData == [present |-> FALSE, externalId |-> Empty]

\* req.body.inquiryData: absent, or the caller's cached copy of the external
\* record (with or without an externalId of its own).
InquiryDataInputs ==
    {NoData} \cup [present : {TRUE}, externalId : {Empty, ext2}]

\* req.body.createBooking: true, false, or not sent.
CreateBookingInputs == {"true", "false", "undefined"}

\* Every body from an admin; from a caller of another role, the bodies that
\* would succeed for an admin.
AssignRequests ==
    [role : {"admin"}, id : Ids, assignedAgent : AgentInputs,
     createBooking : CreateBookingInputs, inquiryData : InquiryDataInputs]
    \cup
    [role : {"agent"}, id : Ids, assignedAgent : {"u1"},
     createBooking : {"undefined", "false"}, inquiryData : InquiryDataInputs]

\* The document assignment materializes from the fallback inquiryData.
fallbackInquiry(oid, req) ==
    NewInquiry(oid, OrElse(req.inquiryData.externalId, req.id))

\* The Booking that assignment creates.
bookingData(agent) ==
    [agent |-> agent, status |-> "pending", approvalStatus |-> "pending"]

\* Variant: a Booking is created only when createBooking is true.
bookingRequested_onlyTrue(req) == req.createBooking = "true"

\* createBooking !== false
bookingRequested(req) == req.createBooking # "false"

\* Variant: only a created Booking advances the status.
assignedStatus_bookedOnly(status, bookingCreated) ==
    IF bookingCreated THEN "in-progress" ELSE status

\* Variant: the assignment step leaves the status as it is.
assignedStatus_unchanged(status, bookingCreated) == status

\* inquiry.status after the Booking step (bookingCreated) and the assignment
\* step, from the status the located document had.
assignedStatus(status, bookingCreated) ==
    LET afterBooking == IF bookingCreated THEN "in-progress" ELSE status
    IN  IF afterBooking = "pending" THEN "in-progress" ELSE afterBooking

\* Variant: a missing inquiry is created whether or not inquiryData came.
createFallback_always(found, inquiryData) == found = 0

\* !inquiry && inquiryData: the fallback document is to be created.
createFallback(found, inquiryData) == found = 0 /\ inquiryData.present

\* Variant: a Booking is kept only when the inquiry save succeeds.
bookingsAfter_rollback(store, booked, saved, data) ==
    IF booked /\ saved THEN Append(store, data) ELSE store

\* The Booking collection after the call: the Booking that was created stays,
\* whether the inquiry save that follows succeeds (saved) or not.
bookingsAfter(store, booked, saved, data) ==
    IF booked THEN Append(store, data) ELSE store

assignInquiryToAgent ==
    /\ Ready
    /\ \E req \in AssignRequests :
         LET op == "assignInquiryToAgent"
             valid == adminOnly(req.role) /\ agentGiven(req.assignedAgent)
             found == findInquiry(inquiries, req.id)
             create == valid /\ createFallback(found, req.inquiryData)
             doc == fallbackInquiry(OID(nextId), req)
         IN
         \E wCreate \in Outcome(create) :
           LET created == create /\ wCreate /\ InsertAccepted(inquiries, doc)
               store1 == IF created THEN Append(inquiries, doc) ELSE inquiries
               target == IF found # 0 THEN found
                         ELSE IF created THEN Len(store1) ELSE 0
               accepted == valid /\ target # 0 /\ agentExists(req.assignedAgent)
               book == accepted /\ bookingRequested(req)
           IN
           \E wBooking \in Outcome(book), wSave \in Outcome(accepted) :
             LET booked == book /\ wBooking
                 updated == [store1[target] EXCEPT
                                !.assignedAgent = req.assignedAgent,
                                !.status = assignedStatus(@, booked)]
                 out(t) == [target |-> t, created |-> created, booked |-> booked,
                            bookingFailed |-> book /\ ~wBooking]
             IN  /\ (create /\ wCreate) => nextId <= MaxInquiries
                 /\ IF ~adminOnly(req.role) THEN
                        /\ last' = Reply(op, req, 403, "Only admins can assign inquiries", NoOut)
                        /\ UNCHANGED <<inquiries, bookings, nextId, everAssigned>>
                    ELSE IF ~agentGiven(req.assignedAgent) THEN
                        /\ last' = Reply(op, req, 400, "Agent ID is required", NoOut)
                        /\ UNCHANGED <<inquiries, bookings, nextId, everAssigned>>
                    ELSE IF create /\ ~created THEN
                        /\ last' = Reply(op, req, 500, "Failed to create inquiry", out(Empty))
                        /\ UNCHANGED <<inquiries, bookings, nextId, everAssigned>>
                    ELSE IF target = 0 THEN
                        /\ last' = Reply(op, req, 404, "Inquiry not found", out(Empty))
                        /\ UNCHANGED <<inquiries, bookings, nextId, everAssigned>>
                    ELSE IF ~agentExists(req.assignedAgent) THEN
                        /\ last' = Reply(op, req, 400, "Agent not found",
                                         out(store1[target]._id))
                        /\ inquiries' = store1
                        /\ nextId' = IF created THEN nextId + 1 ELSE nextId
                        /\ UNCHANGED <<bookings, everAssigned>>
                    ELSE
                        /\ bookings' = bookingsAfter(bookings, booked, wSave,
                                                     bookingData(req.assignedAgent))
                        /\ nextId' = IF created THEN nextId + 1 ELSE nextId
                        /\ IF wSave THEN
                              /\ inquiries' = [store1 EXCEPT ![target] = updated]
                              /\ everAssigned' = everAssigned \cup {<<updated._id, op>>}
                              /\ last' = Reply(op, req, 200,
                                               "Inquiry assigned to agent successfully",
                                               out(updated._id))
                           ELSE
                              /\ inquiries' = store1
                              /\ everAssigned' = everAssigned
                              /\ last' = Reply(op, req, 500, "error",
                                               out(updated._id))
    /\ ops' = ops + 1
    /\ UNCHANGED <<migrationVars, raceVars>>

(***************************************************************************)
(* PUT /inquiries/:id                                                      *)
(***************************************************************************)
\* req.body.status: "" stands for a status that was not sent.
StatusInputs == {"", "pending", "completed"}

\* req.body.assignedAgent: not sent ("undefined"), empty or null (""), or an
\* identifier.
UpdateAgentInputs == {"undefined", "", "u1", UnknownAgent}

UpdateRequests ==
    [caller : {c \in Callers : c.role = "admin"}, id : Ids,
     status : StatusInputs, assignedAgent : UpdateAgentInputs]
    \cup
    [caller : {c \in Callers : c.role = "agent"}, id : Ids,
     status : StatusInputs, assignedAgent : {"undefined", "a1"}]

\* The status updateInquiry stores: the one sent, if any.
updatedStatus(current, sent) == IF sent # "" THEN sent ELSE current

\* The assignedAgent an admin's updateInquiry stores: assignedAgent || null
\* when the field was sent.
updatedAgent(current, sent) ==
    IF sent = "undefined" THEN current
    ELSE IF agentGiven(sent) THEN sent ELSE Null

\* Variant: the agent an admin names is not verified.
unknownAgentSent_never(sent) == FALSE

\* assignedAgent was sent, is not empty, and is in neither identity store.
unknownAgentSent(sent) ==
    sent # "undefined" /\ agentGiven(sent) /\ ~agentExists(sent)

\* What an admin's updateInquiry makes of the document.
adminUpdate(doc, req) ==
    [doc EXCEPT !.status = updatedStatus(@, req.status),
                !.assignedAgent = updatedAgent(@, req.assignedAgent)]

\* Variant: an agent's update is applied as an admin's is.
agentUpdate_withAssignment(doc, req) == adminUpdate(doc, req)

\* What an agent's updateInquiry makes of the document: the status only.
agentUpdate(doc, req) ==
    [doc EXCEPT !.status = updatedStatus(@, req.status)]

\* The caller is an agent and the inquiry is not assigned to the caller.
forbiddenFor(caller, doc) ==
    caller.role = "agent" /\ doc.assignedAgent # caller._id

updateInquiry ==
    /\ Ready
    /\ \E req \in UpdateRequests :
         LET op == "updateInquiry"
             found == findInquiry(inquiries, req.id)
             doc == inquiries[found]
             forbidden == forbiddenFor(req.caller, doc)
             unknownAgent == /\ req.caller.role = "admin"
                             /\ unknownAgentSent(req.assignedAgent)
             saving == found # 0 /\ ~forbidden /\ ~unknownAgent
             updated == IF req.caller.role = "admin"
                        THEN adminUpdate(doc, req)
                        ELSE agentUpdate(doc, req)
         IN
         \E wSave \in Outcome(saving) :
             IF found = 0 THEN
                 /\ last' = Reply(op, req, 404, "Inquiry not found", NoOut)
                 /\ UNCHANGED <<inquiries, everAssigned>>
             ELSE IF forbidden THEN
                 /\ last' = Reply(op, req, 403, "Forbidden", NoOut)
                 /\ UNCHANGED <<inquiries, everAssigned>>
             ELSE IF unknownAgent THEN
                 /\ last' = Reply(op, req, 400, "Agent not found", NoOut)
                 /\ UNCHANGED <<inquiries, everAssigned>>
             ELSE IF ~wSave THEN
                 /\ last' = Reply(op, req, 500, "error", NoOut)
                 /\ UNCHANGED <<inquiries, everAssigned>>
             ELSE
                 /\ inquiries' = [inquiries EXCEPT ![found] = updated]
                 /\ everAssigned' = IF updated.assignedAgent # doc.assignedAgent
                                       /\ updated.assignedAgent # Null
                                    THEN everAssigned \cup {<<updated._id, op>>}
                                    ELSE everAssigned
                 /\ last' = Reply(op, req, 200, "", [inquiry |-> updated])
    /\ ops' = ops + 1
    /\ UNCHANGED <<bookings, nextId>>
    /\ UNCHANGED <<migrationVars, raceVars>>

(***************************************************************************)
(* POST /inquiries/:id/responses                                           *)
(***************************************************************************)
ResponseRequests == [caller : Callers, id : Ids]

addResponse ==
    /\ Ready
    /\ \E req \in ResponseRequests :
         LET op == "addResponse"
             found == findInquiry(inquiries, req.id)
             updated == [inquiries[found] EXCEPT !.responses = @ + 1]
         IN
         \E wSave \in Outcome(found # 0) :
             IF found = 0 THEN
                 /\ last' = Reply(op, req, 404, "Inquiry not found", NoOut)
                 /\ UNCHANGED inquiries
             ELSE IF ~wSave THEN
                 /\ last' = Reply(op, req, 500, "error", NoOut)
                 /\ UNCHANGED inquiries
             ELSE
                 /\ inquiries' = [inquiries EXCEPT ![found] = updated]
                 /\ last' = Reply(op, req, 200, "", [inquiry |-> updated])
    /\ ops' = ops + 1
    /\ UNCHANGED <<bookings, nextId, everAssigned>>
    /\ UNCHANGED <<migrationVars, raceVars>>

(***************************************************************************)
(* DELETE /inquiries/:id                                                   *)
(***************************************************************************)
DeleteRequests == [id : Ids]

\* The store without its i-th document.
without(store, i) == SubSeq(store, 1, i - 1) \o SubSeq(store, i + 1, Len(store))

deleteInquiry ==
    /\ Ready
    /\ \E req \in DeleteRequests :
         LET op == "deleteInquiry"
             found == findInquiry(inquiries, req.id)
         IN
         \E wDelete \in Outcome(found # 0) :
             IF found = 0 THEN
                 /\ last' = Reply(op, req, 404, "Inquiry not found", NoOut)
                 /\ UNCHANGED inquiries
             ELSE IF ~wDelete THEN
                 /\ last' = Reply(op, req, 500, "error", NoOut)
                 /\ UNCHANGED inquiries
             ELSE
                 /\ inquiries' = without(inquiries, found)
                 /\ last' = Reply(op, req, 200, "Inquiry deleted successfully", NoOut)
    /\ ops' = ops + 1
    /\ UNCHANGED <<bookings, nextId, everAssigned>>
    /\ UNCHANGED <<migrationVars, raceVars>>

(***************************************************************************)
(* GET /inquiries                                                          *)
(***************************************************************************)
\* Records of the External Inquiry Source, by the three identifier fields
\* the mapping reads.
Raw(id, externalId, inquiry_id) ==
    [id |-> id, externalId |-> externalId, inquiry_id |-> inquiry_id]

RawPool == {Raw(ext1, Empty, Empty), Raw(Empty, Empty, blankId),
            Raw(Empty, Empty, Empty)}

RECURSIVE SeqsUpTo(_, _)
SeqsUpTo(S, n) ==
    IF n = 0 THEN {<< >>}
    ELSE LET shorter == SeqsUpTo(S, n - 1)
         IN  shorter \cup {Append(q, x) : q \in shorter, x \in S}

\* What the GET to the External Inquiry Source yields: a failure, or a list.
FetchFailed == [ok |-> FALSE, records |-> << >>]
Sources == {FetchFailed} \cup [ok : {TRUE}, records : SeqsUpTo(RawPool, MaxExternal)]

\* A caller, and what the source would answer if it were asked.
ListRequests == [caller : Callers, source : Sources]

RECURSIVE Reverse(_)
Reverse(q) == IF q = << >> THEN << >> ELSE Append(Reverse(Tail(q)), Head(q))

RECURSIVE Filter(_, _)
\* q restricted to the positions in keep
Filter(q, keep) ==
    IF q = << >> THEN << >>
    ELSE LET n == Len(q)
             front == Filter(SubSeq(q, 1, n - 1), keep)
         IN  IF n \in keep THEN Append(front, q[n]) ELSE front

\* Variant: the agent's own filter is not applied.
mongoFilter_allAssigned(caller, doc) == doc.assignedAgent # Null

\* mongoFilter: the documents Inquiry.find selects for the caller.
mongoFilter(caller, doc) ==
    IF caller.role = "agent"
    THEN doc.assignedAgent = caller._id
    ELSE doc.assignedAgent # Null

\* Inquiry.find(mongoFilter).sort({ createdAt: -1 }), as response entries.
mongoInquiries(store, caller) ==
    LET entry(doc) == [id |-> doc._id, externalId |-> doc.externalId,
                       assignedAgent |-> doc.assignedAgent, isExternal |-> FALSE]
        selected == Filter(store, {i \in 1..Len(store) : mongoFilter(caller, store[i])})
    IN  Reverse([i \in 1..Len(selected) |-> entry(selected[i])])

\* Variant: a failed fetch yields a record without identifier fields.
fetchExternalInquiries_placeholder(source) ==
    LET externalId(inq) == OrElse(inq.id, OrElse(inq.externalId, inq.inquiry_id))
        entry(inq) == [id |-> externalId(inq), externalId |-> externalId(inq),
                       assignedAgent |-> Null, isExternal |-> TRUE]
    IN  IF source.ok
        THEN [i \in 1..Len(source.records) |-> entry(source.records[i])]
        ELSE << entry(Raw(blankId, Empty, Empty)) >>

\* fetchExternalInquiries: the mapped records, [] when the fetch failed.
fetchExternalInquiries(source) ==
    LET externalId(inq) == OrElse(inq.id, OrElse(inq.externalId, inq.inquiry_id))
        entry(inq) == [id |-> externalId(inq), externalId |-> externalId(inq),
                       assignedAgent |-> Null, isExternal |-> TRUE]
    IN  IF source.ok
        THEN [i \in 1..Len(source.records) |-> entry(source.records[i])]
        ELSE << >>

\* Variant: the externalId of the stored entries is not collected.
existingExternalIds_idsOnly(populated) ==
    {Trim(populated[i].id) :
        i \in {j \in 1..Len(populated) :
                  /\ Truthy(populated[j].id)
                  /\ ~HexRegexTest(populated[j].id)}}

\* The dedup keys built from the stored entries of the response.
existingExternalIds(populated) ==
    {Trim(populated[i].externalId) :
        i \in {j \in 1..Len(populated) :
                  /\ Truthy(populated[j].externalId)
                  /\ Trim(populated[j].externalId) # Empty}}
    \cup
    {Trim(populated[i].id) :
        i \in {j \in 1..Len(populated) :
                  /\ Truthy(populated[j].id)
                  /\ ~HexRegexTest(populated[j].id)}}

\* Variant: entries without an identifier are not dropped.
unassignedExternalInquiries_keepAll(external, existing) ==
    LET extId(inq) == OrElse(inq.externalId, inq.id)
        kept(inq) == Trim(extId(inq)) \notin existing
    IN  Filter(external, {i \in 1..Len(external) : kept(external[i])})

\* The external entries that are kept.
unassignedExternalInquiries(external, existing) ==
    LET extId(inq) == OrElse(inq.externalId, inq.id)
        kept(inq) == Truthy(extId(inq)) /\ Trim(extId(inq)) \notin existing
    IN  Filter(external, {i \in 1..Len(external) : kept(external[i])})

\* Variant: the stored entries come first.
allInquiries_localFirst(store, caller, source) ==
    LET populated == mongoInquiries(store, caller)
    IN  IF caller.role = "admin"
        THEN populated
             \o unassignedExternalInquiries(fetchExternalInquiries(source),
                                            existingExternalIds(populated))
        ELSE populated

\* The list getInquiries returns.
allInquiries(store, caller, source) ==
    LET populated == mongoInquiries(store, caller)
    IN  IF caller.role = "admin"
        THEN unassignedExternalInquiries(fetchExternalInquiries(source),
                                         existingExternalIds(populated))
             \o populated
        ELSE populated

getInquiries ==
    /\ Ready
    /\ \E req \in ListRequests :
         last' = Reply("getInquiries", req, 200, "",
                       [data |-> allInquiries(inquiries, req.caller, req.source)])
    /\ ops' = ops + 1
    /\ UNCHANGED <<inquiries, bookings, nextId, everAssigned>>
    /\ UNCHANGED <<migrationVars, raceVars>>

(***************************************************************************)
(* GET /inquiries/:id                                                      *)
(***************************************************************************)
ByIdRequests == [caller : Callers, id : Ids]

\* Variant: an inquiry without an agent is shown to every agent.
forbiddenToRead_unassignedOpen(caller, doc) ==
    caller.role = "agent" /\ doc.assignedAgent \notin {Null, caller._id}

\* req.user.role === "agent" && assignedAgentId !== req.user._id.toString(),
\* assignedAgentId being the identifier of the (populated) assignedAgent.
forbiddenToRead(caller, doc) ==
    caller.role = "agent" /\ doc.assignedAgent # caller._id

getInquiryById ==
    /\ Ready
    /\ \E req \in ByIdRequests :
         LET op == "getInquiryById"
             found == findInquiry(inquiries, req.id)
         IN  last' = IF found = 0
                     THEN Reply(op, req, 404, "Inquiry not found", NoOut)
                     ELSE IF forbiddenToRead(req.caller, inquiries[found])
                     THEN Reply(op, req, 403, "Forbidden", NoOut)
                     ELSE Reply(op, req, 200, "", [inquiry |-> inquiries[found]])
    /\ ops' = ops + 1
    /\ UNCHANGED <<inquiries, bookings, nextId, everAssigned>>
    /\ UNCHANGED <<migrationVars, raceVars>>

(***************************************************************************)
(* The response reaches the client; the server is ready for a request.     *)
(***************************************************************************)
sendResponse ==
    /\ last # Idle
    /\ last' = Idle
    /\ UNCHANGED <<inquiries, bookings, nextId, everAssigned, ops>>
    /\ UNCHANGED <<migrationVars, raceVars>>

Next ==
    \/ createInquiry
    \/ assignInquiryToAgent
    \/ updateInquiry
    \/ addResponse
    \/ deleteInquiry
    \/ getInquiries
    \/ getInquiryById
    \/ sendResponse

Spec == Init /\ [][Next]_vars

(***************************************************************************)
(* Two assignments of one external inquiry in flight together.  Each       *)
(* request runs the steps of assignInquiryToAgent; the steps of the two    *)
(* interleave at the awaits (lookup, fallback insert, Booking, save).      *)
(***************************************************************************)
\* The requests of the two admins: PUT /inquiries/x1/assign with fallback
\* inquiryData, the first naming an agent of the User store, the second an
\* agent of the Agent store.
RaceRequests(p) ==
    [pc : {"lookup"}, agent : {IF p = 1 THEN "u1" ELSE "a1"},
     createBooking : {"true", "false"}, externalId : {Empty, ext2},
     doc : {NewInquiry(Empty, Empty)}, code : {0}]

RaceInit ==
    /\ AppInit
    /\ MigrationIdle
    /\ proc \in [Admins -> UNION {RaceRequests(p) : p \in Admins}]
    /\ \A p \in Admins : proc[p] \in RaceRequests(p)
    /\ lastSave = 0

\* The step after the target is known: the Booking unless createBooking is
\* false, then the save.
afterTarget(req) == IF bookingRequested(req) THEN "booking" ELSE "save"

\* Inquiry.findById / Inquiry.findOne: the request keeps its own copy of the
\* document it located.
raceLookup(p) ==
    /\ proc[p].pc = "lookup"
    /\ LET found == findInquiry(inquiries, ext1)
       IN  proc' = [proc EXCEPT ![p] =
                      IF found # 0
                      THEN [@ EXCEPT !.doc = inquiries[found],
                                     !.pc = afterTarget(proc[p])]
                      ELSE [@ EXCEPT !.pc = "create"]]
    /\ UNCHANGED <<inquiries, bookings, nextId, everAssigned, last, ops,
                   lastSave, migrationVars>>

\* The fallback insert; the request ends with 500 when the insert is
\* rejected.
raceCreate(p) ==
    /\ proc[p].pc = "create"
    /\ nextId <= MaxInquiries
    /\ LET doc == NewInquiry(OID(nextId), OrElse(proc[p].externalId, ext1))
       IN  IF InsertAccepted(inquiries, doc)
           THEN /\ inquiries' = Append(inquiries, doc)
                /\ nextId' = nextId + 1
                /\ proc' = [proc EXCEPT ![p] =
                               [@ EXCEPT !.doc = doc, !.pc = afterTarget(proc[p])]]
           ELSE /\ proc' = [proc EXCEPT ![p] = [@ EXCEPT !.pc = "done", !.code = 500]]
                /\ UNCHANGED <<inquiries, nextId>>
    /\ UNCHANGED <<bookings, everAssigned, last, ops, lastSave, migrationVars>>

\* Booking.create, and the status the request's copy gets with it.
raceBooking(p) ==
    /\ proc[p].pc = "booking"
    /\ bookings' = Append(bookings, bookingData(proc[p].agent))
    /\ proc' = [proc EXCEPT ![p] =
                   [@ EXCEPT !.doc.status = assignedStatus(@, TRUE), !.pc = "save"]]
    /\ UNCHANGED <<inquiries, nextId, everAssigned, last, ops, lastSave,
                   migrationVars>>

\* Variant: the save keeps an agent the stored document already has.
savedInquiry_firstWins(stored, agent, status) ==
    IF stored.assignedAgent # Null
    THEN stored
    ELSE [stored EXCEPT !.assignedAgent = agent, !.status = status]

\* inquiry.save() of the assignment step: the agent and the status of the
\* request's copy are written over the stored document.
savedInquiry(stored, agent, status) ==
    [stored EXCEPT !.assignedAgent = agent, !.status = status]

raceSave(p) ==
    /\ proc[p].pc = "save"
    /\ LET i == findById(inquiries, proc[p].doc._id)
           status == assignedStatus(proc[p].doc.status, FALSE)
       IN  inquiries' = [inquiries EXCEPT
                            ![i] = savedInquiry(@, proc[p].agent, status)]
    /\ proc' = [proc EXCEPT ![p] = [@ EXCEPT !.pc = "done", !.code = 200]]
    /\ lastSave' = p
    /\ UNCHANGED <<bookings, nextId, everAssigned, last, ops, migrationVars>>

RaceNext ==
    \E p \in Admins :
        \/ raceLookup(p)
        \/ raceCreate(p)
        \/ raceBooking(p)
        \/ raceSave(p)

RaceSpec == RaceInit /\ [][RaceNext]_vars

(***************************************************************************)
(* The booking endpoints (/api/bookings)                                   *)
(***************************************************************************)
\* Path parameter :id of the booking endpoints: the position of the Booking
\* in the collection.
BookingIds == 1..MaxBookings

\* Body of POST /api/bookings: agent ("" when it is not sent).
CreateBookingRequests == [caller : Callers, agent : {"", "a1"}]

createBooking ==
    /\ Ready
    /\ Len(bookings) < MaxBookings
    /\ \E req \in CreateBookingRequests, createOk \in BOOLEAN :
         LET agentId == IF req.agent # "" THEN req.agent ELSE req.caller._id
             booking == [agent |-> agentId, status |-> "pending",
                         approvalStatus |-> "pending"]
         IN  IF createOk
             THEN /\ bookings' = Append(bookings, booking)
                  /\ last' = Reply("createBooking", req, 201, "", [booking |-> booking])
             ELSE /\ bookings' = bookings
                  /\ last' = Reply("createBooking", req, 400, "error", NoOut)
    /\ ops' = ops + 1
    /\ UNCHANGED <<inquiries, nextId, everAssigned, migrationVars, raceVars>>

\* Body of PUT /api/bookings/:id: approvalStatus and agent ("undefined" when
\* the field is not sent).
UpdateBookingRequests ==
    [caller : Callers, id : BookingIds,
     approvalStatus : {"undefined", "approved", "rejected"},
     agent : {"undefined", "a1"}]

\* booking.agent ? String(booking.agent) === String(req.user._id)
\*               : req.user.role === "admin"
isOwner(booking, caller) ==
    IF booking.agent \notin {Null, ""}
    THEN booking.agent = caller._id
    ELSE caller.role = "admin"

updateBooking ==
    /\ Ready
    /\ \E req \in UpdateBookingRequests :
         LET op == "updateBooking"
             found == req.id <= Len(bookings)
             booking == bookings[req.id]
             allowed == found /\ (req.caller.role = "admin" \/ isOwner(booking, req.caller))
             updated == [booking EXCEPT
                            !.agent = IF req.agent # "undefined" THEN req.agent ELSE @,
                            !.approvalStatus = IF req.approvalStatus # "undefined"
                                               THEN req.approvalStatus ELSE @]
         IN
         \E wSave \in Outcome(allowed) :
             IF ~found THEN
                 /\ last' = Reply(op, req, 404, "Booking not found", NoOut)
                 /\ UNCHANGED bookings
             ELSE IF ~allowed THEN
                 /\ last' = Reply(op, req, 403, "Not authorized", NoOut)
                 /\ UNCHANGED bookings
             ELSE IF ~wSave THEN
                 /\ last' = Reply(op, req, 500, "error", NoOut)
                 /\ UNCHANGED bookings
             ELSE
                 /\ bookings' = [bookings EXCEPT ![req.id] = updated]
                 /\ last' = Reply(op, req, 200, "", [booking |-> updated])
    /\ ops' = ops + 1
    /\ UNCHANGED <<inquiries, nextId, everAssigned, migrationVars, raceVars>>

DecisionRequests == [caller : Callers, id : BookingIds]

approveBooking ==
    /\ Ready
    /\ \E req \in DecisionRequests :
         LET op == "approveBooking"
             found == req.id <= Len(bookings)
             admin == found /\ req.caller.role = "admin"
             updated == [bookings[req.id] EXCEPT
                            !.approvalStatus = "approved", !.status = "confirmed"]
         IN
         \E wSave \in Outcome(admin) :
             IF ~found THEN
                 /\ last' = Reply(op, req, 404, "Booking not found", NoOut)
                 /\ UNCHANGED bookings
             ELSE IF ~admin THEN
                 /\ last' = Reply(op, req, 403, "Not authorized", NoOut)
                 /\ UNCHANGED bookings
             ELSE IF ~wSave THEN
                 /\ last' = Reply(op, req, 500, "error", NoOut)
                 /\ UNCHANGED bookings
             ELSE
                 /\ bookings' = [bookings EXCEPT ![req.id] = updated]
                 /\ last' = Reply(op, req, 200, "Booking approved", [booking |-> updated])
    /\ ops' = ops + 1
    /\ UNCHANGED <<inquiries, nextId, everAssigned, migrationVars, raceVars>>

rejectBooking ==
    /\ Ready
    /\ \E req \in DecisionRequests :
         LET op == "rejectBooking"
             found == req.id <= Len(bookings)
             admin == found /\ req.caller.role = "admin"
             updated == [bookings[req.id] EXCEPT
                            !.approvalStatus = "rejected", !.status = "cancelled"]
         IN
         \E wSave \in Outcome(admin) :
             IF ~found THEN
                 /\ last' = Reply(op, req, 404, "Booking not found", NoOut)
                 /\ UNCHANGED bookings
             ELSE IF ~admin THEN
                 /\ last' = Reply(op, req, 403, "Not authorized", NoOut)
                 /\ UNCHANGED bookings
             ELSE IF ~wSave THEN
                 /\ last' = Reply(op, req, 500, "error", NoOut)
                 /\ UNCHANGED bookings
             ELSE
                 /\ bookings' = [bookings EXCEPT ![req.id] = updated]
                 /\ last' = Reply(op, req, 200, "Booking rejected", [booking |-> updated])
    /\ ops' = ops + 1
    /\ UNCHANGED <<inquiries, nextId, everAssigned, migrationVars, raceVars>>

BookingNext ==
    \/ createBooking
    \/ updateBooking
    \/ approveBooking
    \/ rejectBooking
    \/ sendResponse

BookingSpec == Init /\ [][BookingNext]_vars

(***************************************************************************)
(* The pure functions of the controller, each applied to one input         *)
(***************************************************************************)
\* Identifier strings: of every length up to MaxIdLen, of one hexadecimal
\* character, with at most one position holding another character.
ProbeChars == {"g", " ", "F", "0"}
FillChars == {"a", "9"}
IdStrings ==
    {[i \in 1..n |-> IF i = k THEN c ELSE h] :
        n \in 0..MaxIdLen, k \in 0..MaxIdLen, c \in ProbeChars, h \in FillChars}

\* The two classifiers of local identifiers, applied to one string: the one
\* of the dedup keys and the one of the lookup order.
classifyIdentifier ==
    /\ Ready
    /\ \E s \in IdStrings :
         last' = Reply("classifyIdentifier", [id |-> s], 200, "",
                       [dedup |-> HexRegexTest(s), lookup |-> isMongoObjectId(s)])
    /\ ops' = ops + 1
    /\ UNCHANGED <<inquiries, bookings, nextId, everAssigned,
                   migrationVars, raceVars>>

\* JavaScript values of a response body and of its fields.
Undefined == [type |-> "undefined"]
JsNull == [type |-> "null"]
JsString == [type |-> "string"]
Arr(items) == [type |-> "array", items |-> items]

\* Array.isArray
IsArray(v) == v.type = "array"

\* What a field of the body can hold: nothing, a string, an empty array, or
\* an array with the record named.
FieldValues(record) == {Undefined, JsString, Arr(<< >>), Arr(<<record>>)}

\* response.body: nothing, a string, a bare array, or an object with any of
\* the fields data, inquiries and result.
Bodies ==
    {Undefined, JsNull, JsString, Arr(<< >>), Arr(<<"b1", "b2">>)}
    \cup [type : {"object"}, data : FieldValues("d1"),
          inquiries : FieldValues("i1"), result : FieldValues("r1")]

\* data.f, undefined when data is not an object
Field(data, f) == IF data.type = "object" THEN data[f] ELSE Undefined

\* Variant: the fields are tried in the order result, inquiries, data.
externalInquiries_resultFirst(data) ==
    IF IsArray(data) THEN data.items
    ELSE IF IsArray(Field(data, "result")) THEN Field(data, "result").items
    ELSE IF IsArray(Field(data, "inquiries")) THEN Field(data, "inquiries").items
    ELSE IF IsArray(Field(data, "data")) THEN Field(data, "data").items
    ELSE << >>

\* externalInquiries: the list taken from the response body.
externalInquiries(data) ==
    IF IsArray(data) THEN data.items
    ELSE IF IsArray(Field(data, "data")) THEN Field(data, "data").items
    ELSE IF IsArray(Field(data, "inquiries")) THEN Field(data, "inquiries").items
    ELSE IF IsArray(Field(data, "result")) THEN Field(data, "result").items
    ELSE << >>

normalizeResponse ==
    /\ Ready
    /\ \E data \in Bodies :
         last' = Reply("normalizeResponse", [body |-> data], 200, "",
                       [externalInquiries |-> externalInquiries(data)])
    /\ ops' = ops + 1
    /\ UNCHANGED <<inquiries, bookings, nextId, everAssigned,
                   migrationVars, raceVars>>

\* JavaScript values of the fields of an external record: absent, the
\* numbers 0 and 1, strings, booleans.
FlagValues == {"undefined", "num:0", "num:1", "str:0", "str:1",
               "bool:true", "bool:false", "str:yes"}

\* JavaScript truthiness of such a value.
JsTruthy(v) == v \notin {"undefined", "num:0", "bool:false"}

\* The fields of a record that the inclusion flags are read from.
FlagFields == {"breakfast", "dinner", "visa_included", "visa", "ticket",
               "roundtrip", "ziyarat", "guide"}

\* The inclusion flags of packageDetails.inclusions.
Inclusions == {"breakfast", "dinner", "visa", "ticket", "roundtrip",
               "ziyarat", "guide"}

NoFlags == [f \in FlagFields |-> "undefined"]

\* Records of flag fields of which at most two are present.
FlagRecords ==
    {[f \in FlagFields |-> IF f = f1 THEN v1 ELSE IF f = f2 THEN v2 ELSE "undefined"] :
        f1 \in FlagFields, v1 \in FlagValues, f2 \in FlagFields, v2 \in FlagValues}

\* inq.package_details: absent, or an object with or without a package name
\* and with flag fields of its own.
NestedPackages ==
    {[present |-> FALSE, packageName |-> "undefined", flags |-> NoFlags]}
    \cup [present : {TRUE}, packageName : {"undefined", "str:n"},
          flags : {NoFlags, [f \in FlagFields |-> "str:0"]}]

\* External records, by the fields the package mapping reads.
PackageRecords ==
    [package_details : NestedPackages, package_name : {"undefined", "str:p"},
     price_double : {"undefined", "num:100"}, flags : FlagRecords]

\* Variant: a flat flag is taken by its truthiness.
flatFlag_truthy(v) == JsTruthy(v)

\* v === 1 || v === '1' || v === true
flatFlag(v) == v \in {"num:1", "str:1", "bool:true"}

\* The package mapping of fetchExternalInquiries: packageDetails of the
\* mapped entry, from the nested package_details when it names a package
\* (its flags read from the fields of package_details itself), else from the
\* flat fields; "null" when no package name is found.
packageDetails(inq) ==
    LET pkg == inq.package_details
        nested ==
            [packageName |-> pkg.packageName,
             inclusions |->
                [x \in Inclusions |->
                    JsTruthy(pkg.flags[IF x = "visa" THEN "visa_included" ELSE x])]]
        flat ==
            [packageName |-> inq.package_name,
             inclusions |->
                [x \in Inclusions |->
                    IF x = "visa"
                    THEN flatFlag(inq.flags["visa_included"]) \/ flatFlag(inq.flags["visa"])
                    ELSE flatFlag(inq.flags[x])]]
        fromNested == pkg.present /\ JsTruthy(pkg.packageName)
        flatFields == JsTruthy(inq.package_name) \/ JsTruthy(inq.price_double)
    IN  IF fromNested THEN nested
        ELSE IF flatFields /\ JsTruthy(flat.packageName) THEN flat
        ELSE [packageName |-> "null", inclusions |-> [x \in Inclusions |-> FALSE]]

mapPackageDetails ==
    /\ Ready
    /\ \E inq \in PackageRecords :
         last' = Reply("mapPackageDetails", [inq |-> inq], 200, "",
                       [packageDetails |-> packageDetails(inq)])
    /\ ops' = ops + 1
    /\ UNCHANGED <<inquiries, bookings, nextId, everAssigned,
                   migrationVars, raceVars>>

FunctionsNext ==
    \/ classifyIdentifier
    \/ normalizeResponse
    \/ mapPackageDetails

FunctionsSpec == Init /\ [][FunctionsNext]_vars

(***************************************************************************)
(* The migration script                                                    *)
(***************************************************************************)
\* A collection of the old cluster: absent, or present with its documents
\* (numbered from 1).
SourceStates ==
    {[exists |-> FALSE, docs |-> {}]}
    \cup {[exists |-> TRUE, docs |-> 1..k] : k \in 0..MaxDocs}

\* A collection of the new cluster before the first run: empty, or holding a
\* document (numbered 0) that did not come from the old cluster.
TargetStates == {{}, {0}}

\* Both clusters are connected; the loop is at its first collection.
MigrationInit ==
    /\ AppInit
    /\ RaceIdle
    /\ oldDb \in [Names -> SourceStates]
    /\ newDb \in [Names -> TargetStates]
    /\ cursor = 1
    /\ run = 1
    /\ snapshot = newDb
    /\ failed = {}

\* Variant: the new collection is never taken to have data.
targetHasData_never(existingCount) == FALSE

\* existingCount > 0
targetHasData(existingCount) == existingCount > 0

\* One turn of the loop over COLLECTIONS.  insertMany (unordered) inserts
\* every document, or throws having inserted only some of them or none; the
\* error is caught and the loop goes on.
migrateCollection ==
    /\ cursor <= Len(Migrated)
    /\ LET collectionName == Migrated[cursor]
           documents == oldDb[collectionName].docs
           existingCount == Cardinality(newDb[collectionName])
       IN  IF ~oldDb[collectionName].exists THEN
               UNCHANGED <<newDb, failed>>
           ELSE IF documents = {} THEN
               UNCHANGED <<newDb, failed>>
           ELSE IF targetHasData(existingCount) THEN
               UNCHANGED <<newDb, failed>>
           ELSE
               \E inserted \in SUBSET documents :
                   /\ newDb' = [newDb EXCEPT ![collectionName] = @ \cup inserted]
                   /\ failed' = IF inserted # documents
                                THEN failed \cup {collectionName}
                                ELSE failed
    /\ cursor' = cursor + 1
    /\ UNCHANGED <<oldDb, run, snapshot, appVars, raceVars>>

\* The script has ended and is run again.
migrateDatabase ==
    /\ cursor = Len(Migrated) + 1
    /\ run < MaxRuns
    /\ run' = run + 1
    /\ cursor' = 1
    /\ snapshot' = IF run = 1 THEN newDb ELSE snapshot
    /\ UNCHANGED <<oldDb, newDb, failed, appVars, raceVars>>

MigrationNext ==
    \/ migrateCollection
    \/ migrateDatabase

MigrationSpec == MigrationInit /\ [][MigrationNext]_vars

(***************************************************************************)
(* Properties                                                              *)
(***************************************************************************)
Assign == "assignInquiryToAgent"

\* Some stored document matches id by local identifier or by externalId.
Matches(store, id) ==
    \E i \in 1..Len(store) : store[i]._id = id \/ store[i].externalId = id

\* The stored document with local identifier oid.
DocOf(store, oid) == store[CHOOSE i \in 1..Len(store) : store[i]._id = oid]

KnownAgent(a) == a \in Users \cup Agents

\* The entries of a returned list that come from the external source.
ExternalIdsIn(data) == {data[k].id : k \in {n \in 1..Len(data) : data[n].isExternal}}

\* The identifiers the external source returned.
SourceIds(source) ==
    {OrElse(source.records[k].id,
            OrElse(source.records[k].externalId, source.records[k].inquiry_id)) :
        k \in 1..Len(source.records)}

AdminList == last.op = "getInquiries" /\ last.req.caller.role = "admin"

\* C1 as stated: in an admin list, no external entry carries an identifier
\* that is the externalId of any stored inquiry, assigned or not.
C1_StoredExternalIdExcluded ==
    AdminList =>
        \A i \in 1..Len(inquiries) :
            Truthy(inquiries[i].externalId) =>
                inquiries[i].externalId \notin ExternalIdsIn(last.out.data)

\* C1 amended: in an admin list, no external entry carries an identifier that
\* is the externalId of a stored inquiry with a non-null assignedAgent, when
\* that identifier has a character other than white space.
C1_AssignedExternalIdExcluded ==
    AdminList =>
        \A i \in 1..Len(inquiries) :
            (inquiries[i].assignedAgent # Null
             /\ Trim(inquiries[i].externalId) # Empty) =>
                inquiries[i].externalId \notin ExternalIdsIn(last.out.data)

\* An admin list for which the source returned the externalId of an assigned
\* stored inquiry.
C1_Witness ==
    /\ AdminList
    /\ last.req.source.ok
    /\ \E i \in 1..Len(inquiries) :
          /\ inquiries[i].assignedAgent # Null
          /\ inquiries[i].externalId = ext1
          /\ ext1 \in SourceIds(last.req.source)

\* C2: the list an agent gets holds exactly the stored inquiries assigned to
\* that agent, each once, and no entry of the external source.
C2_AgentSeesExactlyOwn ==
    (last.op = "getInquiries" /\ last.req.caller.role = "agent") =>
        LET data == last.out.data
            own == {inquiries[i]._id :
                        i \in {n \in 1..Len(inquiries) :
                                  inquiries[n].assignedAgent = last.req.caller._id}}
        IN  /\ Len(data) = Cardinality(own)
            /\ {data[k].id : k \in 1..Len(data)} = own
            /\ \A k \in 1..Len(data) :
                  /\ ~data[k].isExternal
                  /\ data[k].assignedAgent = last.req.caller._id

\* An agent's list while the store holds an inquiry of that agent and one of
\* another agent, and the source has an identified record to offer.
C2_Witness ==
    /\ last.op = "getInquiries"
    /\ last.req.caller.role = "agent"
    /\ last.req.source.ok
    /\ ext1 \in SourceIds(last.req.source)
    /\ \E i, j \in 1..Len(inquiries) :
          /\ inquiries[i].assignedAgent = last.req.caller._id
          /\ inquiries[j].assignedAgent \notin {Null, last.req.caller._id}
    /\ Len(last.out.data) = 1

\* C3 as stated: a successful assignment turns the status of its target from
\* "pending" to "in-progress" and leaves every other status as it was.
C3_StatusChangesOnlyFromPending ==
    [][(last'.op = Assign /\ last'.code = 200) =>
          \A i \in 1..Len(inquiries) :
              inquiries'[i].status =
                  IF inquiries[i]._id = last'.out.target
                     /\ inquiries[i].status = "pending"
                  THEN "in-progress"
                  ELSE inquiries[i].status]_vars

\* C4 as stated: the stored inquiries are exactly the inquiries that have been
\* assigned to an agent at least once.
C4_StoredIffAssigned ==
    {inquiries[i]._id : i \in 1..Len(inquiries)} = {p[1] : p \in everAssigned}

AssignedByWorkflow(oid) == <<oid, Assign>> \in everAssigned

\* C6 as stated: an inquiry that a successful assignInquiryToAgent has
\* assigned is never "pending" afterwards.
C6_NeverPendingAgain ==
    \A i \in 1..Len(inquiries) :
        AssignedByWorkflow(inquiries[i]._id) => inquiries[i].status # "pending"

\* C6 amended: a successful assignInquiryToAgent leaves its target with a
\* status other than "pending", and afterwards the status becomes "pending"
\* only by an updateInquiry whose body carries the status "pending".
C6_PendingOnlyByUpdate ==
    [][/\ (last'.op = Assign /\ last'.code = 200) =>
              DocOf(inquiries', last'.out.target).status # "pending"
       /\ \A i \in 1..Len(inquiries), j \in 1..Len(inquiries') :
              (/\ inquiries'[j]._id = inquiries[i]._id
               /\ AssignedByWorkflow(inquiries[i]._id)
               /\ inquiries[i].status # "pending"
               /\ inquiries'[j].status = "pending") =>
                  (/\ last'.op = "updateInquiry"
                   /\ last'.req.status = "pending"
                   /\ last'.code = 200)]_vars

\* An inquiry that assignInquiryToAgent assigned is "pending" again after an
\* updateInquiry.
C6_Witness ==
    /\ last.op = "updateInquiry"
    /\ last.code = 200
    /\ \E i \in 1..Len(inquiries) :
          /\ AssignedByWorkflow(inquiries[i]._id)
          /\ inquiries[i].status = "pending"

\* C7 as stated: an admin's assignment of an identifier that matches no stored
\* inquiry, with inquiryData, an existing agent and createBooking not false,
\* whose writes succeed, adds one inquiry with externalId equal to the
\* identifier, status "in-progress" and the agent, and one "pending" Booking
\* of that agent.
C7_FallbackAssignment ==
    [][(/\ last'.op = Assign
        /\ last'.req.role = "admin"
        /\ ~Matches(inquiries, last'.req.id)
        /\ last'.req.inquiryData.present
        /\ KnownAgent(last'.req.assignedAgent)
        /\ last'.req.createBooking # "false"
        /\ last'.code = 200
        /\ last'.out.booked) =>
           LET n == Len(inquiries)
               b == Len(bookings)
           IN  /\ Len(inquiries') = n + 1
               /\ SubSeq(inquiries', 1, n) = inquiries
               /\ inquiries'[n + 1].externalId = last'.req.id
               /\ inquiries'[n + 1].status = "in-progress"
               /\ inquiries'[n + 1].assignedAgent = last'.req.assignedAgent
               /\ Len(bookings') = b + 1
               /\ SubSeq(bookings', 1, b) = bookings
               /\ bookings'[b + 1].agent = last'.req.assignedAgent
               /\ bookings'[b + 1].status = "pending"]_vars

\* C8: the target of an assignment is the stored inquiry whose local
\* identifier is the given 24-hex identifier; failing that, the stored inquiry
\* whose externalId is the identifier; failing that, a document created from
\* inquiryData; failing that, the call is answered "not found".  No document
\* is created when a stored inquiry matches.
C8_ResolutionOrder ==
    [][(/\ last'.op = Assign
        /\ last'.req.role = "admin"
        /\ last'.req.assignedAgent # "") =>
           LET id == last'.req.id
               n == Len(inquiries)
               byLocal == {i \in 1..n : HexRegexTest(id) /\ inquiries[i]._id = id}
               byExternal == {i \in 1..n : inquiries[i].externalId = id}
               \* answered after the target was located: a success, an
               \* unknown agent, or a failed final save
               resolved == \/ last'.code = 200
                           \/ last'.msg = "Agent not found"
                           \/ last'.code = 500 /\ last'.msg = "error"
           IN  IF byLocal # {} THEN
                   /\ Len(inquiries') = n
                   /\ resolved
                   /\ last'.out.target = id
               ELSE IF byExternal # {} THEN
                   /\ Len(inquiries') = n
                   /\ resolved
                   /\ \E i \in byExternal :
                         /\ last'.out.target = inquiries[i]._id
                         /\ \A j \in byExternal : i <= j
               ELSE IF last'.req.inquiryData.present THEN
                   \/ /\ last'.code = 500
                      /\ last'.msg = "Failed to create inquiry"
                      /\ inquiries' = inquiries
                   \/ /\ resolved
                      /\ Len(inquiries') = n + 1
                      /\ last'.out.target = inquiries'[n + 1]._id
                      /\ \A i \in 1..n : inquiries[i]._id # last'.out.target
               ELSE
                   /\ last'.code = 404
                   /\ inquiries' = inquiries]_vars

\* A successful assignment by an identifier that is the local identifier of
\* one stored inquiry and the externalId of another.
C8_Witness ==
    /\ last.op = Assign
    /\ last.code = 200
    /\ last.out.target = last.req.id
    /\ \E i, j \in 1..Len(inquiries) :
          /\ i # j
          /\ inquiries[i]._id = last.req.id
          /\ inquiries[j].externalId = last.req.id

\* C9: an admin's assignment, naming an agent, of an identifier that matches
\* no stored inquiry, without inquiryData, is answered 404 "not found"; with
\* or without an agent named it is never answered as a success and writes no
\* Inquiry and no Booking.
C9_NotFoundWithoutData ==
    [][(/\ last'.op = Assign
        /\ last'.req.role = "admin"
        /\ ~Matches(inquiries, last'.req.id)
        /\ ~last'.req.inquiryData.present) =>
           /\ last'.code # 200
           /\ last'.req.assignedAgent # "" =>
                 (last'.code = 404 /\ last'.msg = "Inquiry not found")
           /\ inquiries' = inquiries
           /\ bookings' = bookings]_vars

\* A "not found" answer to an admin who sent no inquiryData, while the store
\* holds another inquiry.
C9_Witness ==
    /\ last.op = Assign
    /\ last.req.role = "admin"
    /\ ~last.req.inquiryData.present
    /\ last.code = 404
    /\ Len(inquiries) > 0
    /\ ~Matches(inquiries, last.req.id)

C11_NonAdminRejected ==
    [][(last'.op = Assign /\ last'.req.role # "admin") =>
          /\ last'.code = 403
          /\ inquiries' = inquiries
          /\ bookings' = bookings
          /\ nextId' = nextId]_vars

\* A refused assignment by an agent-role caller that carried fallback
\* inquiryData for an identifier no stored inquiry matches.
C11_Witness ==
    /\ last.op = Assign
    /\ last.req.role = "agent"
    /\ last.code = 403
    /\ last.req.inquiryData.present
    /\ ~Matches(inquiries, last.req.id)
    /\ Len(inquiries) > 0

\* C12: when the Booking write of an assignment fails, the call is answered
\* as it is when the write succeeds: 200 with the success message, the target
\* persisted with the given agent and with "pending" advanced to
\* "in-progress" (any other status kept), and no Booking added; the only
\* other answer is the 500 of a failed final save, which leaves the target
\* as it was.
C12_BookingFailureTolerated ==
    [][(last'.op = Assign /\ last'.out # NoOut /\ last'.out.bookingFailed) =>
          /\ bookings' = bookings
          /\ \/ /\ last'.code = 200
                /\ last'.msg = "Inquiry assigned to agent successfully"
                /\ LET doc == DocOf(inquiries', last'.out.target)
                       before == IF last'.out.created
                                 THEN "pending"
                                 ELSE DocOf(inquiries, last'.out.target).status
                   IN  /\ doc.assignedAgent = last'.req.assignedAgent
                       /\ doc.status = IF before = "pending"
                                       THEN "in-progress" ELSE before
             \/ /\ last'.code = 500
                /\ last'.msg = "error"
                /\ \A i \in 1..Len(inquiries) : inquiries'[i] = inquiries[i]]_vars

\* A successful assignment of a stored "pending" inquiry whose Booking write
\* failed.
C12_Witness ==
    /\ last.op = Assign
    /\ last.code = 200
    /\ last.out.bookingFailed
    /\ ~last.out.created
    /\ bookings = << >>
    /\ DocOf(inquiries, last.out.target).status = "in-progress"
    /\ DocOf(inquiries, last.out.target).assignedAgent = last.req.assignedAgent

\* An admin's assignment of a stored inquiry that is "in-progress" and already
\* assigned to the agent the request names.
Reassignment(req) ==
    /\ req.role = "admin"
    /\ KnownAgent(req.assignedAgent)
    /\ findInquiry(inquiries, req.id) # 0
    /\ inquiries[findInquiry(inquiries, req.id)].status = "in-progress"
    /\ inquiries[findInquiry(inquiries, req.id)].assignedAgent = req.assignedAgent

\* C13 as stated, call by call (each call creates at most one Booking, so the
\* count over two calls is the claimed one exactly when it is for each call):
\* assigning an "in-progress" inquiry again to its agent leaves the status
\* and the agent, and creates one Booking exactly when createBooking is not
\* false.
C13_BookingPerRequestedCall ==
    [][(last'.op = Assign /\ Reassignment(last'.req)) =>
          LET i == findInquiry(inquiries, last'.req.id)
          IN  /\ inquiries'[i].status = "in-progress"
              /\ inquiries'[i].assignedAgent = last'.req.assignedAgent
              /\ Len(bookings') =
                    Len(bookings) + IF last'.req.createBooking # "false"
                                    THEN 1 ELSE 0]_vars

\* C13 amended: assigning an "in-progress" inquiry again to its agent leaves
\* the status and the agent, and creates one Booking exactly when
\* createBooking is not false and the Booking write succeeds, none otherwise.
C13_BookingPerSucceededWrite ==
    [][(last'.op = Assign /\ Reassignment(last'.req)) =>
          LET i == findInquiry(inquiries, last'.req.id)
          IN  /\ inquiries'[i].status = "in-progress"
              /\ inquiries'[i].assignedAgent = last'.req.assignedAgent
              /\ Len(bookings') =
                    Len(bookings) + IF /\ last'.req.createBooking # "false"
                                       /\ ~last'.out.bookingFailed
                                    THEN 1 ELSE 0]_vars

\* Three assignments of one inquiry to one agent: the first created it with a
\* Booking, the second added a Booking, the third (createBooking false) none.
C13_Witness ==
    /\ last.op = Assign
    /\ last.code = 200
    /\ last.req.createBooking = "false"
    /\ ops = MaxOps
    /\ Len(inquiries) = 1
    /\ Len(bookings) = 2
    /\ inquiries[1].status = "in-progress"
    /\ \A b \in 1..Len(bookings) :
          bookings[b].agent = inquiries[1].assignedAgent

\* The identifier of a record of the external source, as the mapping reads it.
SourceId(raw) == OrElse(raw.id, OrElse(raw.externalId, raw.inquiry_id))

\* The entries of data after the first k are the stored inquiries with an
\* agent, each once, the one stored last first.
StoredNewestFirst(data, k) ==
    LET assigned == {i \in 1..Len(inquiries) : inquiries[i].assignedAgent # Null}
        pos(oid) == CHOOSE i \in 1..Len(inquiries) : inquiries[i]._id = oid
    IN  /\ Len(data) - k = Cardinality(assigned)
        /\ {data[n].id : n \in (k + 1)..Len(data)} =
               {inquiries[i]._id : i \in assigned}
        /\ \A a, b \in (k + 1)..Len(data) :
               a < b => pos(data[a].id) > pos(data[b].id)

C15_SourceFailureDegrades ==
    (AdminList /\ ~last.req.source.ok) =>
        /\ last.code = 200
        /\ \A n \in 1..Len(last.out.data) : ~last.out.data[n].isExternal
        /\ StoredNewestFirst(last.out.data, 0)

\* An admin list after a failed fetch, while the store holds an inquiry with
\* an agent and one without.
C15_Witness ==
    /\ AdminList
    /\ ~last.req.source.ok
    /\ Len(last.out.data) = 1
    /\ Len(inquiries) = 2

\* C16: an agent's updateInquiry of an inquiry that is not the agent's is
\* answered 403 and changes nothing; of the agent's own inquiry it changes at
\* most the status (to the one sent), whatever assignedAgent the body carries.
C16_AgentUpdatesStatusOnly ==
    [][(/\ last'.op = "updateInquiry"
        /\ last'.req.caller.role = "agent"
        /\ findInquiry(inquiries, last'.req.id) # 0) =>
           LET i == findInquiry(inquiries, last'.req.id)
               req == last'.req
           IN  IF inquiries[i].assignedAgent # req.caller._id
               THEN /\ last'.code = 403
                    /\ inquiries' = inquiries
               ELSE /\ last'.code \in {200, 500}
                    /\ last'.code = 500 => inquiries' = inquiries
                    /\ last'.code = 200 =>
                          inquiries' =
                             [inquiries EXCEPT ![i].status =
                                 IF req.status # "" THEN req.status ELSE @]
                    /\ inquiries'[i].assignedAgent = req.caller._id]_vars

\* An agent changed the status of the agent's own inquiry with a body that
\* named another agent.
C16_Witness ==
    /\ last.op = "updateInquiry"
    /\ last.code = 200
    /\ last.req.caller = [role |-> "agent", _id |-> "u1"]
    /\ last.req.assignedAgent = "a1"
    /\ last.req.status = "completed"
    /\ last.out.inquiry.status = "completed"
    /\ last.out.inquiry.assignedAgent = "u1"

\* C17 as stated: an agent's addResponse to an inquiry that is assigned to
\* another agent, or to nobody, is rejected and leaves the store as it is.
C17_AgentRespondsToOwnOnly ==
    [][(/\ last'.op = "addResponse"
        /\ last'.req.caller.role = "agent"
        /\ findInquiry(inquiries, last'.req.id) # 0
        /\ inquiries[findInquiry(inquiries, last'.req.id)].assignedAgent
              # last'.req.caller._id) =>
           /\ last'.code # 200
           /\ inquiries' = inquiries]_vars

\* C18: getInquiryById answers an agent with the inquiry when it is assigned
\* to that agent and with 403 when it is assigned to another agent or to
\* nobody, whether the identifier is the local one or the externalId.
C18_AgentReadsOwnOnly ==
    (last.op = "getInquiryById" /\ last.req.caller.role = "agent") =>
        LET id == last.req.id
            byLocal == {i \in 1..Len(inquiries) :
                           HexRegexTest(id) /\ inquiries[i]._id = id}
            byExternal == {i \in 1..Len(inquiries) : inquiries[i].externalId = id}
            located == IF byLocal # {} THEN byLocal ELSE byExternal
        IN  /\ located = {} <=> last.code = 404
            /\ \A i \in located :
                  IF inquiries[i].assignedAgent = last.req.caller._id
                  THEN last.code = 200 /\ last.out.inquiry = inquiries[i]
                  ELSE last.code = 403 /\ last.out = NoOut

\* An agent was refused an inquiry of another agent that the externalId
\* located.
C18_Witness ==
    /\ last.op = "getInquiryById"
    /\ last.req.caller.role = "agent"
    /\ last.code = 403
    /\ last.req.id = ext1
    /\ \E i \in 1..Len(inquiries) :
          /\ inquiries[i].externalId = ext1
          /\ inquiries[i].assignedAgent \in (Users \cup Agents) \ {last.req.caller._id}

\* C19: whenever createInquiry has forwarded the webhook, whatever became of
\* it (skipped, delivered, failed), the inquiry built from the request is
\* stored and the answer is 201; with the webhook URL or the secret unset the
\* forward is skipped without an outbound request.
C19_WebhookBestEffort ==
    [][last'.op = "createInquiry" =>
          \/ /\ last'.code = 500
             /\ last'.out = NoOut
             /\ inquiries' = inquiries
          \/ /\ last'.code = 201
             /\ Len(inquiries') = Len(inquiries) + 1
             /\ inquiries' = Append(inquiries, last'.out.inquiry)
             /\ last'.out.inquiry.externalId =
                   OrElse(last'.req.externalId, last'.req.id)
             /\ LET env == last'.out.env
                    r == last'.out.webhook
                IN  /\ (~env.url \/ ~env.secret) =>
                          (r.skipped /\ ~r.sent /\ ~r.success)
                    /\ (env.url /\ env.secret) => (~r.skipped /\ r.sent)]_vars

\* An inquiry was created and answered 201 although the webhook, configured,
\* failed.
C19_Witness ==
    /\ last.op = "createInquiry"
    /\ last.code = 201
    /\ last.out.webhook.sent
    /\ ~last.out.webhook.success
    /\ \E i \in 1..Len(inquiries) : inquiries[i] = last.out.inquiry

\* The collection a step of the loop has processed.
Processed == Migrated[cursor]

\* C20 as stated: no step inserts into a collection of the new cluster that
\* holds a document; an empty one receives every document of the collection
\* of the old cluster; and once a first run has ended, a further run leaves
\* every collection of the new cluster as the first run left it.
C20_MigrationIdempotent ==
    [][/\ \A c \in Names : newDb'[c] # newDb[c] => newDb[c] = {}
       /\ (cursor' = cursor + 1 /\ newDb[Processed] = {}) =>
              newDb'[Processed] = oldDb[Processed].docs
       /\ run' >= 2 => newDb' = snapshot']_vars

\* C20 amended: no step inserts into a collection of the new cluster that
\* holds a document; an empty one receives every document of the collection
\* of the old cluster when insertMany succeeds, and some or none of them when
\* it fails; and after a first run in which no insertMany failed, a further
\* run leaves every collection of the new cluster as the first run left it.
C20_MigrationIdempotentUnlessFailed ==
    [][/\ \A c \in Names : newDb'[c] # newDb[c] => newDb[c] = {}
       /\ (cursor' = cursor + 1 /\ newDb[Processed] = {}) =>
              /\ newDb'[Processed] \subseteq oldDb[Processed].docs
              /\ Processed \notin failed' =>
                    newDb'[Processed] = oldDb[Processed].docs
       /\ (run' >= 2 /\ failed' = {}) => newDb' = snapshot']_vars

\* The end of a second run after a first run without failure, in which one
\* collection was copied and another, which had data, was skipped.
C20_Witness ==
    /\ run = 2
    /\ cursor = Len(Migrated) + 1
    /\ failed = {}
    /\ newDb = snapshot
    /\ \E c, d \in Names :
          /\ oldDb[c].docs # {}
          /\ newDb[c] = oldDb[c].docs
          /\ oldDb[d].docs # {}
          /\ newDb[d] = {0}

\* C22: when the Booking write of an assignment succeeds and the inquiry
\* save that follows fails, the call is answered as an error, the Booking
\* stays in the store, and every stored inquiry, the target included, keeps
\* the assignedAgent and the status it had (a target the call created is
\* "pending" and has no agent).
C22_NoRollback ==
    [][(/\ last'.op = Assign
        /\ last'.code = 500
        /\ last'.msg = "error"
        /\ last'.out.booked) =>
           LET b == Len(bookings)
               n == Len(inquiries)
           IN  /\ Len(bookings') = b + 1
               /\ SubSeq(bookings', 1, b) = bookings
               /\ bookings'[b + 1].agent = last'.req.assignedAgent
               /\ \A i \in 1..n : inquiries'[i] = inquiries[i]
               /\ Len(inquiries') = IF last'.out.created THEN n + 1 ELSE n
               /\ last'.out.created =>
                     /\ inquiries'[n + 1].assignedAgent = Null
                     /\ inquiries'[n + 1].status = "pending"]_vars

\* An assignment answered as an error left a Booking for an agent while the
\* stored inquiry is still "pending" without an agent.
C22_Witness ==
    /\ last.op = Assign
    /\ last.code = 500
    /\ last.msg = "error"
    /\ last.out.booked
    /\ ~last.out.created
    /\ Len(bookings) = 1
    /\ DocOf(inquiries, last.out.target).assignedAgent = Null
    /\ DocOf(inquiries, last.out.target).status = "pending"

\* C23 as stated: an assignment answered "Agent not found" leaves the Inquiry
\* Store as it was before the call.
C23_AgentNotFoundWritesNothing ==
    [][(last'.op = Assign /\ last'.msg = "Agent not found") =>
          inquiries' = inquiries]_vars

C25_BookingAfterChecks ==
    [][last'.op = Assign =>
          LET b == Len(bookings)
          IN  /\ bookings' # bookings =>
                    /\ Len(bookings') = b + 1
                    /\ SubSeq(bookings', 1, b) = bookings
                    /\ KnownAgent(last'.req.assignedAgent)
                    /\ bookings'[b + 1].agent = last'.req.assignedAgent
                    /\ last'.req.role = "admin"
                    /\ last'.out.target # Empty
                    /\ \/ last'.code = 200
                       \/ last'.code = 500 /\ last'.msg = "error"
              /\ last'.code \in {400, 403, 404} => bookings' = bookings
              /\ last'.msg = "Failed to create inquiry" => bookings' = bookings]_vars

\* An assignment created the only Booking, for an agent of the Agent store,
\* while the store also holds an inquiry that no call has assigned.
C25_Witness ==
    /\ last.op = Assign
    /\ last.code = 200
    /\ last.out.booked
    /\ last.req.assignedAgent \in Agents
    /\ Len(bookings) = 1
    /\ ops >= 2
    /\ \E i \in 1..Len(inquiries) : inquiries[i].assignedAgent = Null

\* C28: no list of getInquiries holds an entry without identifier, and an
\* admin list holds at most as many external entries as the source returned
\* records with a non-empty id, externalId or inquiry_id.
C28_UnidentifiedDropped ==
    last.op = "getInquiries" =>
        LET data == last.out.data
            records == last.req.source.records
        IN  /\ \A n \in 1..Len(data) : data[n].id # Empty
            /\ Cardinality({n \in 1..Len(data) : data[n].isExternal}) <=
                  Cardinality({r \in 1..Len(records) : SourceId(records[r]) # Empty})

\* An admin list for which the source returned a record without identifier
\* and an identified one.
C28_Witness ==
    /\ AdminList
    /\ last.req.source.ok
    /\ \E r, q \in 1..Len(last.req.source.records) :
          /\ SourceId(last.req.source.records[r]) = Empty
          /\ SourceId(last.req.source.records[q]) = ext1
    /\ Len(last.out.data) = 1
    /\ last.out.data[1].isExternal

\* C27: for every identifier string, the test of the dedup keys (exactly 24
\* hexadecimal characters) and the test of the lookup order (ObjectId-valid
\* and of length 24) give the same boolean, which is true exactly for the
\* strings of 24 hexadecimal characters.
C27_SameClassifier ==
    last.op = "classifyIdentifier" =>
        LET s == last.req.id
            looksLikeLocalId ==
                Len(s) = 24 /\ \A i \in 1..Len(s) : s[i] \in HexChars
        IN  /\ last.out.dedup = last.out.lookup
            /\ last.out.lookup = looksLikeLocalId

\* The classifiers were applied to a string of 12 characters, which is
\* ObjectId-valid without being a local identifier.
C27_Witness ==
    /\ last.op = "classifyIdentifier"
    /\ Len(last.req.id) = 12
    /\ ObjectIdIsValid(last.req.id)
    /\ ~last.out.lookup
    /\ ~last.out.dedup

\* C29: the list taken from a response body is the body itself when it is
\* an array, else the first of its fields data, inquiries, result that holds
\* an array, else the empty list; no body is answered with an error.
C29_EnvelopeOrder ==
    last.op = "normalizeResponse" =>
        LET body == last.req.body
            isObject == body.type = "object"
            expected ==
                CASE body.type = "array" -> body.items
                  [] isObject /\ body.data.type = "array" -> body.data.items
                  [] isObject /\ body.data.type # "array"
                       /\ body.inquiries.type = "array" -> body.inquiries.items
                  [] isObject /\ body.data.type # "array"
                       /\ body.inquiries.type # "array"
                       /\ body.result.type = "array" -> body.result.items
                  [] OTHER -> << >>
        IN  /\ last.code = 200
            /\ last.out.externalInquiries = expected

\* A body whose data is not an array while inquiries and result both are:
\* the array under inquiries was taken.
C29_Witness ==
    /\ last.op = "normalizeResponse"
    /\ last.req.body.type = "object"
    /\ last.req.body.data = JsString
    /\ last.req.body.inquiries = Arr(<<"i1">>)
    /\ last.req.body.result = Arr(<<"r1">>)
    /\ last.out.externalInquiries = <<"i1">>

\* The fields of a flat record that an inclusion flag is read from.
SourceFields(x) == IF x = "visa" THEN {"visa_included", "visa"} ELSE {x}

\* C30: for a flat record (no package_details that names a package) with a
\* package name, each of the seven inclusion flags is true when a field it is
\* read from holds 1, "1" or true, and false when each of them holds 0, "0"
\* or is absent.
C30_FlatFlagsNormalized ==
    (/\ last.op = "mapPackageDetails"
     /\ ~(last.req.inq.package_details.present
          /\ last.req.inq.package_details.packageName # "undefined")
     /\ last.req.inq.package_name # "undefined") =>
        LET inq == last.req.inq
            out == last.out.packageDetails
        IN  /\ out.packageName = inq.package_name
            /\ \A x \in Inclusions :
                  /\ (\E f \in SourceFields(x) :
                         inq.flags[f] \in {"num:1", "str:1", "bool:true"})
                        => out.inclusions[x] = TRUE
                  /\ (\A f \in SourceFields(x) :
                         inq.flags[f] \in {"num:0", "str:0", "undefined"})
                        => out.inclusions[x] = FALSE

\* The mapping of a flat record whose breakfast is "1" and whose dinner is
\* "0".
C30_Witness ==
    /\ last.op = "mapPackageDetails"
    /\ ~last.req.inq.package_details.present
    /\ last.req.inq.package_name = "str:p"
    /\ last.req.inq.flags["breakfast"] = "str:1"
    /\ last.req.inq.flags["dinner"] = "str:0"
    /\ last.out.packageDetails.inclusions["breakfast"]
    /\ ~last.out.packageDetails.inclusions["dinner"]

\* C26 as stated: a Booking is created with approvalStatus "pending", and the
\* approvalStatus of a stored Booking changes only by the request of an admin.
C26_ApprovalByAdminOnly ==
    [][/\ \A i \in (Len(bookings) + 1)..Len(bookings') :
             bookings'[i].approvalStatus = "pending"
       /\ \A i \in 1..Len(bookings) :
             bookings'[i].approvalStatus # bookings[i].approvalStatus =>
                 last'.req.caller.role = "admin"]_vars

\* Both requests have been answered.
BothDone == \A p \in Admins : proc[p].pc = "done"

\* C21: after two interleaved assignments of the same identifier, not yet
\* stored, both with fallback inquiryData that names no other identifier, the
\* store holds one inquiry for the identifier, "in-progress", whose
\* assignedAgent is the agent of the request whose assignment save ran last.
C21_LastWriterWins ==
    (/\ BothDone
     /\ \A p \in Admins : proc[p].externalId = Empty) =>
        /\ Len(inquiries) = 1
        /\ inquiries[1].externalId = ext1
        /\ inquiries[1].status = "in-progress"
        /\ lastSave \in Admins
        /\ inquiries[1].assignedAgent = proc[lastSave].agent

\* Both requests succeeded, and the inquiry is with the agent of the first
\* admin, whose save ran after the save of the second.
C21_Witness ==
    /\ BothDone
    /\ \A p \in Admins : proc[p].code = 200 /\ proc[p].externalId = Empty
    /\ lastSave = 1
    /\ Len(inquiries) = 1
    /\ inquiries[1].assignedAgent = "u1"
    /\ Len(bookings) = 2
    /\ bookings[1].agent = "u1"

====
